---- MODULE Spec2Model ----
(***************************************************************************)
(* Job orchestration engine of transcriber-pro (server/transcription.go):  *)
(* the job registry, the pending queue, the scheduler loop processQueue,   *)
(* the worker adapter Transcribe, the progress estimator, and the caller   *)
(* operations CreateJob, CancelJob, KillJob, ClearCompletedJobs,           *)
(* ClearAllJobs and GetQueue, run by concurrent HTTP handler goroutines.   *)
(*                                                                         *)
(* Granularity.  jobsMutex and queueMutex are modelled explicitly: a       *)
(* critical section that takes one of them alone is one atomic step whose  *)
(* guard is that the mutex is free; an operation that nests the two takes  *)
(* the first in one step and the second (with the body and both unlocks)   *)
(* in the next, so a thread can be seen holding one and waiting for the    *)
(* other.  cancelledJobsMux and workerMutex only ever guard one read or    *)
(* one write and are never held while another lock is taken, so each such  *)
(* access is one atomic step.                                              *)
(***************************************************************************)
EXTENDS Integers, Sequences, FiniteSets, Bags, TLC

\* ------------------------------------------------------------------ bounds
\* Number of jobs submitted over a run (job IDs are fresh UUIDs: main.go:166).
MaxJobs == 2
\* Number of engine calls made over a run, submissions included.
MaxCalls == 3
\* Number of caller goroutines (HTTP handlers) running at the same time.
NumCallers == 2
\* The same for the runs of submissions and cancellations only (SpecFIFO).
FifoJobs == 3
FifoCalls == 4
FifoCallers == 1
\* The same for the runs of submissions, cancellations and kills (SpecKill).
KillCalls == 4
KillCallers == 1
\* The same for the runs with CreateJob calls that reuse an ID (SpecResubmit).
ResubmitCalls == 3
ResubmitCallers == 1
\* The same for the runs over the expected times of a job (SpecProgress).
ProgressCalls == 2
ProgressJobs == 1
ProgressCallers == 1
\* The same for the runs over every failure of the worker call (SpecFail).
FailCalls == 3
FailCallers == 1
\* The same for the fair runs of submissions only (SpecWake).
WakeCalls == 2
WakeCallers == 2

MaxOf(a, b) == IF a > b THEN a ELSE b
JobIDs == 1..MaxOf(MaxJobs, FifoJobs)

\* ------------------------------------------------------- program constants
StatusQueued == "queued"
StatusProcessing == "processing"
StatusTranscribing == "transcribing"
StatusCompleted == "completed"
StatusFailed == "failed"
JobStatus ==
  {StatusQueued, StatusProcessing, StatusTranscribing, StatusCompleted, StatusFailed}
Terminal == {StatusCompleted, StatusFailed}
Active == {StatusProcessing, StatusTranscribing}

ErrCancelled == "Cancelled by user"
ErrKilled == "Killed by user"
ErrDuration == "Failed to get audio duration"
ErrPrepare == "Failed to create worker request"
ErrWorker == "Worker failed"
ErrParse == "Failed to parse worker response"
\* resp.Error of an unsuccessful response (worker/main.go sendError).
ErrResponse == "worker reported error"

\* Progress written on completion, and the estimator's clamp.
ProgressDone == 100
ProgressClamp == 99

\* A registry slot with no entry (the map has no such key).
NoJob == [Status |-> "absent"]
\* workerCmd == nil.
NilCmd == 0

VARIABLES
  jobs,           \* e.jobs: job ID -> Job record, or NoJob
  queue,          \* e.queue: sequence of job IDs
  isProcessing,   \* e.isProcessing
  cancelledJobs,  \* e.cancelledJobs: set of IDs mapped to true
  workerCmd,      \* e.workerCmd: NilCmd or the ID of the job the command runs
  proc,           \* the worker process of each job: none/created/running/exited/killed/reaped
  sched,          \* processQueue goroutine: pc and locals
  est,            \* estimateProgress goroutine of each job: off/select/update
  stopClosed,     \* jobs whose stopEstimator channel is closed
  calls,          \* caller goroutines in flight: a bag of [op, pc, id, flag]
  callsLeft,      \* number of engine calls the callers may still begin
  jobsLeft,       \* number of jobs the callers may still submit
  callers,        \* number of caller goroutines that may run at the same time
  nextID,         \* next fresh job ID
  audioFiles,     \* uploaded audio files still on disk
  submitted,      \* history: IDs in the order they were appended to the queue
  terminated,     \* history: IDs whose status has been written Completed/Failed
  killedLive,     \* history: IDs whose running worker a KillJob naming them killed
  takenCancelled, \* history: the job the scheduler took was in cancelledJobs then
  expectedTime,   \* expectedTime of Transcribe: duration / speedFactor, in seconds
  workerOutcomes  \* what a worker that exits by itself may yield in this run

vars ==
  <<jobs, queue, isProcessing, cancelledJobs, workerCmd, proc, sched, est,
    stopClosed, calls, callsLeft, jobsLeft, callers, nextID, audioFiles,
    submitted, terminated, killedLive, takenCancelled, expectedTime,
    workerOutcomes>>

\* -------------------------------------------------------------- registry
NoResult == "nil"
TheResult == "transcript"

\* The Job record CreateJob stores.
NewJob ==
  [Status |-> StatusQueued, Progress |-> 0, Message |-> "Waiting in queue...",
   ETA |-> "", Result |-> NoResult, Error |-> "", QueuePosition |-> 0]

Has(js, id) == js[id] # NoJob

\* An updateJob that never stores the result.
updateJobNoResult(js, id, status, progress, message, eta, result, errorMsg) ==
  IF js[id] # [Status |-> "absent"]
    THEN [js EXCEPT ![id] =
            [@ EXCEPT !.Status = status,
                      !.Progress = progress,
                      !.Message = message,
                      !.ETA = eta,
                      !.Error = IF errorMsg # "" THEN errorMsg ELSE @]]
    ELSE js

\* updateJob: no-op when the ID is absent; result and errorMsg are only
\* stored when non-nil / non-empty.
updateJob(js, id, status, progress, message, eta, result, errorMsg) ==
  IF Has(js, id)
    THEN [js EXCEPT ![id] =
            [@ EXCEPT !.Status = status,
                      !.Progress = progress,
                      !.Message = message,
                      !.ETA = eta,
                      !.Result = IF result # NoResult THEN result ELSE @,
                      !.Error = IF errorMsg # "" THEN errorMsg ELSE @]]
    ELSE js

\* fmt.Sprintf("Waiting in queue (position %d)", i+1)
PositionMessage(n) == "Waiting in queue (position " \o ToString(n) \o ")"

\* The loop of updateQueuePositions over e.queue, applied to a registry.
RECURSIVE SetPositions(_, _, _, _)
SetPositions(js, q, i, processing) ==
  IF i > Len(q) THEN js
  ELSE LET id == q[i]
           js1 == IF Has(js, id)
                    THEN [js EXCEPT ![id] =
                            [@ EXCEPT !.QueuePosition = i,
                                      !.Message = IF i = 1 /\ processing
                                                    THEN "Processing..."
                                                    ELSE PositionMessage(i)]]
                    ELSE js
       IN SetPositions(js1, q, i + 1, processing)

InQueue(q, id) == \E i \in 1..Len(q) : q[i] = id

\* A removal that drops the head whatever the ID.
RemoveHead(q, id) == Tail(q)

\* CancelJob's newQueue: the queue without every occurrence of id.
RemoveID(q, id) == SelectSeq(q, LAMBDA x : x # id)

\* IDs whose registry entry has a terminal status.
NowTerminal(js) == {id \in JobIDs : Has(js, id) /\ js[id].Status \in Terminal}

\* ------------------------------------------------------- progress estimate
\* Inputs of the estimator: seconds since startTime at a tick, and
\* expectedTime = duration / speedFactor.
ElapsedSeconds == {3}
ExpectedSeconds == 2

\* Values of expectedTime explored by SpecProgress.  getAudioDuration returns
\* whatever number ffprobe printed (strconv.ParseFloat, no range check), so
\* the expected time may be zero or negative as well.
ExpectedTimes == {-2, 0, 2, 3, 4, 300, 400}

\* elapsed / expectedTime * 100 in float64, for elapsed > 0 (a tick comes
\* 500 ms after startTime at the earliest): a division by zero yields +Inf,
\* which is above every clamp; a negative expectedTime a negative quotient.
\* Fractions are dropped.
ProgressRatio(elapsed, expected, clamp) ==
  IF expected = 0 THEN clamp + 1
  ELSE IF expected < 0 THEN 0 - ((elapsed * 100) \div (0 - expected))
  ELSE (elapsed * 100) \div expected

\* progress := (elapsed / expectedTime) * 100; if progress > 99 { progress = 99 }
EstimatedProgress(elapsed, expected) ==
  LET p == ProgressRatio(elapsed, expected, ProgressClamp)
  IN IF p > ProgressClamp THEN ProgressClamp ELSE p

\* formatDuration
formatDuration(seconds) ==
  IF seconds < 0 THEN "Almost done..."
  ELSE LET hours == seconds \div 3600
           minutes == (seconds \div 60) % 60
           secs == seconds % 60
       IN IF hours > 0
            THEN ToString(hours) \o "h " \o ToString(minutes) \o "m remaining"
            ELSE IF minutes > 0
              THEN ToString(minutes) \o "m " \o ToString(secs) \o "s remaining"
              ELSE ToString(secs) \o "s remaining"

TranscribingMessage(p) == "Transcribing... " \o ToString(p) \o "%"

\* ------------------------------------------------------------------- locks
JobsMutex == "jobsMutex"
QueueMutex == "queueMutex"

\* queueMutex before jobsMutex.
QueueMutexFirst == <<QueueMutex, JobsMutex>>

\* Acquisition order of the operations that nest the two mutexes.
updateQueuePositionsLocks == <<JobsMutex, QueueMutex>>
ClearCompletedJobsLocks == <<JobsMutex, QueueMutex>>
ClearAllJobsLocks == <<JobsMutex, QueueMutex>>
GetQueueLocks == <<QueueMutex, JobsMutex>>

\* The nested section a thread is inside, having taken its first lock and
\* not yet its second; <<>> when it is in none.
NestingOfPC(pc) ==
  CASE pc = "uqp2" -> updateQueuePositionsLocks
    [] pc = "cc2" -> ClearCompletedJobsLocks
    [] pc = "ca2" -> ClearAllJobsLocks
    [] pc = "gq2" -> GetQueueLocks
    [] OTHER -> <<>>

\* A thread is the scheduler's record or a caller's: both carry a pc.
Threads == {sched} \cup BagToSet(calls)
Nesting(t) == NestingOfPC(t.pc)
Held(t) == IF Nesting(t) = <<>> THEN "none" ELSE Nesting(t)[1]
Wanted(t) == IF Nesting(t) = <<>> THEN "none" ELSE Nesting(t)[2]
Free(l) == \A t \in Threads : Held(t) # l

\* IsCancelled
IsCancelled(id) == id \in cancelledJobs

\* ------------------------------------------------------------------- state
SchedIdle == [op |-> "processQueue", pc |-> "lock", id |-> 0, res |-> ""]

\* What cmd.Output() and the parse of its output can yield for a process
\* that exited by itself: a successful response or a failure.  The three
\* failures (non-zero exit, output that does not parse, success = false)
\* take the same updateJob call with different messages; ExitOutcomes lists
\* the outcomes explored.
ExitOutcomes == {"success", ErrWorker}

\* The same with the three failures told apart (SpecFail).
FailureOutcomes == {"success", ErrWorker, ErrParse, ErrResponse}

\* The engine after NewTranscriptionEngine, with the callers' budgets, the
\* expected transcription time of the audio files submitted and the outcomes
\* of a worker that exits by itself.
StartRun(nCalls, nJobs, nCallers, expected, outcomes) ==
  /\ jobs = [id \in JobIDs |-> NoJob]
  /\ queue = <<>>
  /\ isProcessing = FALSE
  /\ cancelledJobs = {}
  /\ workerCmd = NilCmd
  /\ proc = [id \in JobIDs |-> "none"]
  /\ sched = SchedIdle
  /\ est = [id \in JobIDs |-> "off"]
  /\ stopClosed = {}
  /\ calls = EmptyBag
  /\ callsLeft = nCalls
  /\ jobsLeft = nJobs
  /\ callers = nCallers
  /\ nextID = 1
  /\ audioFiles = {}
  /\ submitted = <<>>
  /\ terminated = {}
  /\ killedLive = {}
  /\ takenCancelled = FALSE
  /\ expectedTime = expected
  /\ workerOutcomes = outcomes

StartAt(nCalls, nJobs, nCallers, expected) ==
  StartRun(nCalls, nJobs, nCallers, expected, ExitOutcomes)

Start(nCalls, nJobs, nCallers) == StartAt(nCalls, nJobs, nCallers, ExpectedSeconds)

Init == Start(MaxCalls, MaxJobs, NumCallers)

\* Every action that writes the registry records the terminal statuses it
\* leaves behind.
Written(js) ==
  /\ jobs' = js
  /\ terminated' = terminated \cup NowTerminal(js)

\* updateQueuePositions that relabels nothing.
SkipPositions(js) == js

\* updateQueuePositions, its body under both locks.
updateQueuePositions(js) == SetPositions(js, queue, 1, isProcessing)

\* --------------------------------------------------- processQueue goroutine
\* queueMutex.Lock(); for len(queue) == 0 { Wait() }; jobID := queue[0];
\* isProcessing = true; Unlock().  Wait() parks the goroutine until Signal.
SchedTake ==
  /\ sched.pc = "lock"
  /\ Free(QueueMutex)
  /\ IF queue = <<>>
       THEN /\ sched' = [sched EXCEPT !.pc = "wait"]
            /\ UNCHANGED isProcessing
       ELSE /\ sched' = [sched EXCEPT !.pc = "read", !.id = Head(queue)]
            /\ isProcessing' = TRUE
  /\ UNCHANGED <<jobs, queue, cancelledJobs, workerCmd, proc, killedLive, est,
                 stopClosed, calls, callsLeft, jobsLeft, callers, nextID,
                 audioFiles, submitted, terminated>>
  /\ takenCancelled' = (queue # <<>> /\ IsCancelled(Head(queue)))
  /\ UNCHANGED <<expectedTime, workerOutcomes>>

\* wasCancelled := job.Status == StatusFailed && job.Error == "Cancelled by user"
wasCancelled(job) == job.Status = StatusFailed /\ job.Error = ErrCancelled

\* Transcribe up to the worker command: getAudioDuration may fail (the
\* estimator is not started); otherwise the estimator goroutine starts.
\* Preparing the request may fail too (json.Marshal of four strings,
\* os.Executable), which closes stopEstimator at once; ProbeOutcomes lists
\* the outcomes explored.
ProbeOutcomes == {"ok", ErrDuration}

\* close(stopEstimator) as the estimator sees it.  An estimator parked in
\* its select returns, unless the ticker fired as well and select took the
\* tick (it then passes the IsCancelled check of that tick); an estimator
\* in the middle of a tick is not interrupted.
StopChoices(e, id) ==
  IF e = "select"
    THEN {"off"} \cup (IF IsCancelled(id) THEN {} ELSE {"update"})
    ELSE {e}

\* Read the job under jobsMutex.RLock and branch: call Transcribe, skip a
\* cancelled job (removing its audio file), or do nothing for a missing job.
\* Transcribe's steps before the worker command touch no shared state but
\* the estimator they start, and are part of this step.
SchedRead ==
  /\ sched.pc = "read"
  /\ Free(JobsMutex)
  /\ LET id == sched.id
         found == Has(jobs, id)
     IN IF found /\ ~wasCancelled(jobs[id])
          THEN /\ \E o \in ProbeOutcomes :
                    CASE o = ErrDuration ->
                           /\ sched' = [sched EXCEPT !.pc = "write", !.res = ErrDuration]
                           /\ UNCHANGED <<est, stopClosed>>
                      [] o = ErrPrepare ->
                           /\ sched' = [sched EXCEPT !.pc = "write", !.res = ErrPrepare]
                           /\ \E e \in StopChoices("select", id) :
                                est' = [est EXCEPT ![id] = e]
                           /\ stopClosed' = stopClosed \cup {id}
                      [] OTHER ->
                           /\ sched' = [sched EXCEPT !.pc = "store"]
                           /\ est' = [est EXCEPT ![id] = "select"]
                           /\ UNCHANGED stopClosed
               /\ UNCHANGED audioFiles
          ELSE /\ sched' = [sched EXCEPT !.pc = "pop"]
               /\ audioFiles' = IF found THEN audioFiles \ {id} ELSE audioFiles
               /\ UNCHANGED <<est, stopClosed>>
  /\ UNCHANGED <<jobs, queue, isProcessing, cancelledJobs, workerCmd, proc, killedLive,
                 calls, callsLeft, jobsLeft, callers, nextID, submitted,
                 terminated>>
  /\ takenCancelled' = (takenCancelled /\ sched'.pc = "store")
  /\ UNCHANGED <<expectedTime, workerOutcomes>>

\* e.workerCmd = cmd (the command exists, its process is not started yet).
TranscribeStore ==
  /\ sched.pc = "store"
  /\ workerCmd' = sched.id
  /\ proc' = [proc EXCEPT ![sched.id] = "created"]
  /\ UNCHANGED killedLive
  /\ sched' = [sched EXCEPT !.pc = "start"]
  /\ UNCHANGED <<jobs, queue, isProcessing, cancelledJobs, est, stopClosed,
                 calls, callsLeft, jobsLeft, callers, nextID, audioFiles,
                 submitted, terminated>>
  /\ UNCHANGED <<takenCancelled, expectedTime, workerOutcomes>>

\* cmd.Output() starts the worker process, or fails to start it.
StartOutcomes == {"running", "nostart"}

TranscribeStart ==
  /\ sched.pc = "start"
  /\ \E o \in StartOutcomes : proc' = [proc EXCEPT ![sched.id] = o]
  /\ UNCHANGED killedLive
  /\ sched' = [sched EXCEPT !.pc = "output"]
  /\ UNCHANGED <<jobs, queue, isProcessing, cancelledJobs, workerCmd, est,
                 stopClosed, calls, callsLeft, jobsLeft, callers, nextID,
                 audioFiles, submitted, terminated>>
  /\ takenCancelled' = FALSE
  /\ UNCHANGED <<expectedTime, workerOutcomes>>

\* The worker process exits by itself.
WorkerExit ==
  /\ \E id \in JobIDs :
       /\ proc[id] = "running"
       /\ proc' = [proc EXCEPT ![id] = "exited"]
  /\ UNCHANGED killedLive
  /\ UNCHANGED <<jobs, queue, isProcessing, cancelledJobs, workerCmd, sched,
                 est, stopClosed, calls, callsLeft, jobsLeft, callers,
                 nextID, audioFiles, submitted, terminated>>
  /\ UNCHANGED <<takenCancelled, expectedTime, workerOutcomes>>

\* cmd.Output() with no wait for the process.
OutputUnblocked(p) == p # "created"

\* The worker call may return once the process is gone.
WorkerGone(p) == p \in {"exited", "killed", "nostart"}

\* cmd.Output() returning collects the process it waited for; it has no
\* effect on a process that runs.
Reap(p) == IF p = "running" THEN p ELSE "reaped"

\* if e.IsCancelled(jobID) { ... "Cancelled by user" }: the outcome to write.
Outcome(id, res) == IF IsCancelled(id) THEN ErrCancelled ELSE res

\* A worker call that leaves the handle as it is.
KeepCmd(cmd) == cmd

\* e.workerCmd = nil after cmd.Output() returned.
ClearCmd(cmd) == NilCmd

\* cmd.Output() returns; workerCmd = nil; close(stopEstimator); then the
\* IsCancelled check that decides what Transcribe will write.
TranscribeOutput ==
  /\ sched.pc = "output"
  /\ WorkerGone(proc[sched.id])
  /\ \E o \in workerOutcomes :
       /\ proc[sched.id] # "exited" => o = ErrWorker
       /\ sched' = [sched EXCEPT !.pc = "write", !.res = Outcome(sched.id, o)]
  /\ workerCmd' = ClearCmd(workerCmd)
  /\ proc' = [proc EXCEPT ![sched.id] = Reap(@)]
  /\ UNCHANGED killedLive
  /\ stopClosed' = stopClosed \cup {sched.id}
  /\ \E e \in StopChoices(est[sched.id], sched.id) :
       est' = [est EXCEPT ![sched.id] = e]
  /\ UNCHANGED <<jobs, queue, isProcessing, cancelledJobs, calls, callsLeft,
                 jobsLeft, callers, nextID, audioFiles, submitted,
                 terminated>>
  /\ UNCHANGED <<takenCancelled, expectedTime, workerOutcomes>>

\* An end of Transcribe that records successes only.
DropFailure(js, id, res) ==
  IF res = "success"
    THEN updateJob(js, id, StatusCompleted, ProgressDone, "Completed", "", TheResult, "")
    ELSE js

\* The updateJob call that ends Transcribe.
FinalUpdate(js, id, res) ==
  IF res = "success"
    THEN updateJob(js, id, StatusCompleted, ProgressDone, "Completed", "", TheResult, "")
    ELSE updateJob(js, id, StatusFailed, 0, "", "", NoResult, res)

\* Transcribe's last updateJob, then processQueue's os.Remove(audioPath).
TranscribeWrite ==
  /\ sched.pc = "write"
  /\ Free(JobsMutex)
  /\ Written(FinalUpdate(jobs, sched.id, sched.res))
  /\ audioFiles' = audioFiles \ {sched.id}
  /\ sched' = [sched EXCEPT !.pc = "pop", !.res = ""]
  /\ UNCHANGED <<queue, isProcessing, cancelledJobs, workerCmd, proc, killedLive, est,
                 stopClosed, calls, callsLeft, jobsLeft, callers, nextID,
                 submitted>>
  /\ UNCHANGED <<takenCancelled, expectedTime, workerOutcomes>>

\* A pop that leaves the queue as it is.
KeepHead(q) == q

\* if len(e.queue) > 0 { e.queue = e.queue[1:] }
PopHead(q) == IF Len(q) > 0 THEN Tail(q) ELSE q

\* Remove from queue: pop the head, isProcessing = false.
SchedPop ==
  /\ sched.pc = "pop"
  /\ Free(QueueMutex)
  /\ queue' = PopHead(queue)
  /\ isProcessing' = FALSE
  /\ sched' = [sched EXCEPT !.pc = "uqp1"]
  /\ UNCHANGED <<jobs, cancelledJobs, workerCmd, proc, killedLive, est, stopClosed,
                 calls, callsLeft, jobsLeft, callers, nextID, audioFiles,
                 submitted, terminated>>
  /\ UNCHANGED <<takenCancelled, expectedTime, workerOutcomes>>

\* updateQueuePositions: take the first lock.
SchedPositionsLock ==
  /\ sched.pc = "uqp1"
  /\ Free(updateQueuePositionsLocks[1])
  /\ sched' = [sched EXCEPT !.pc = "uqp2"]
  /\ UNCHANGED <<jobs, queue, isProcessing, cancelledJobs, workerCmd, proc, killedLive,
                 est, stopClosed, calls, callsLeft, jobsLeft, callers,
                 nextID, audioFiles, submitted, terminated>>
  /\ UNCHANGED <<takenCancelled, expectedTime, workerOutcomes>>

\* updateQueuePositions: take the second lock, relabel, unlock both; loop.
SchedPositions ==
  /\ sched.pc = "uqp2"
  /\ Free(updateQueuePositionsLocks[2])
  /\ Written(updateQueuePositions(jobs))
  /\ sched' = SchedIdle
  /\ UNCHANGED <<queue, isProcessing, cancelledJobs, workerCmd, proc, killedLive, est,
                 stopClosed, calls, callsLeft, jobsLeft, callers, nextID,
                 audioFiles, submitted>>
  /\ UNCHANGED <<takenCancelled, expectedTime, workerOutcomes>>

\* ------------------------------------------------ estimateProgress goroutine
\* case <-ticker.C: if e.IsCancelled(jobID) { return }, while stopEstimator
\* is open.
EstimatorTick ==
  /\ \E id \in JobIDs :
       /\ est[id] = "select"
       /\ est' = [est EXCEPT ![id] = IF IsCancelled(id) THEN "off" ELSE "update"]
  /\ UNCHANGED <<jobs, queue, isProcessing, cancelledJobs, workerCmd, proc, killedLive,
                 sched, stopClosed, calls, callsLeft, jobsLeft, callers,
                 nextID, audioFiles, submitted, terminated>>
  /\ UNCHANGED <<takenCancelled, expectedTime, workerOutcomes>>

\* The estimator's updateJob call for a tick at the given elapsed time.
TickUpdate(js, id, elapsed) ==
  LET p == EstimatedProgress(elapsed, expectedTime)
  IN updateJob(js, id, StatusTranscribing, p, TranscribingMessage(p),
               formatDuration(expectedTime - elapsed), NoResult, "")

\* updateJob(jobID, StatusTranscribing, ...), then back to the select (which
\* returns, or takes another tick, when stopEstimator is closed by now).
EstimatorUpdate ==
  /\ \E id \in JobIDs, elapsed \in ElapsedSeconds :
       /\ est[id] = "update"
       /\ Free(JobsMutex)
       /\ Written(TickUpdate(jobs, id, elapsed))
       /\ \E e \in (IF id \in stopClosed THEN StopChoices("select", id) ELSE {"select"}) :
            est' = [est EXCEPT ![id] = e]
  /\ UNCHANGED <<queue, isProcessing, cancelledJobs, workerCmd, proc, killedLive, sched,
                 stopClosed, calls, callsLeft, jobsLeft, callers, nextID,
                 audioFiles, submitted>>
  /\ UNCHANGED <<takenCancelled, expectedTime, workerOutcomes>>

\* -------------------------------------------------------- caller goroutines
\* Caller goroutines are anonymous: the ones in flight form a bag.
Call(op, pc, id) == [op |-> op, pc |-> pc, id |-> id, flag |-> FALSE]
InFlight == BagToSet(calls)

\* A handler goroutine starts executing an engine call.
Begin(r) ==
  /\ BagCardinality(calls) < callers
  /\ callsLeft > 0
  /\ r.op = "CreateJob" => jobsLeft > 0
  /\ calls' = calls (+) SetToBag({r})
  /\ callsLeft' = callsLeft - 1
  /\ jobsLeft' = IF r.op = "CreateJob" THEN jobsLeft - 1 ELSE jobsLeft
  /\ UNCHANGED callers

\* A caller moves on inside its call, or returns.
Goto(r, r2) ==
  /\ calls' = (calls (-) SetToBag({r})) (+) SetToBag({r2})
  /\ UNCHANGED <<callsLeft, jobsLeft, callers>>

Return(r) ==
  /\ calls' = calls (-) SetToBag({r})
  /\ UNCHANGED <<callsLeft, jobsLeft, callers>>

SchedUnchanged ==
  UNCHANGED <<isProcessing, workerCmd, sched, est, stopClosed>>

\* IDs a client can name in a cancel or kill request: a job ID is generated
\* by the server and becomes known from the listing of the queue, once it is
\* appended, or from the response to the upload, once CreateJob returned.
Issued == {submitted[i] : i \in 1..Len(submitted)}

\* handleTranscribe saves the upload under a fresh UUID; CreateJob stores the
\* Job under jobsMutex.
CreateJobStore ==
  /\ Free(JobsMutex)
  /\ Begin(Call("CreateJob", "append", nextID))
  /\ Written([jobs EXCEPT ![nextID] = NewJob])
  /\ audioFiles' = audioFiles \cup {nextID}
  /\ nextID' = nextID + 1
  /\ SchedUnchanged
  /\ UNCHANGED <<queue, cancelledJobs, proc, killedLive, submitted>>
  /\ UNCHANGED <<takenCancelled, expectedTime, workerOutcomes>>

\* CreateJob called with an ID that is already a key of the registry: the
\* same assignment e.jobs[jobID] = &Job{...}.  The call's flag records that
\* the ID was present.
CreateJobAgain ==
  /\ Free(JobsMutex)
  /\ \E id \in JobIDs :
       /\ Has(jobs, id)
       /\ Begin([Call("CreateJob", "append", id) EXCEPT !.flag = TRUE])
       /\ Written([jobs EXCEPT ![id] = NewJob])
       /\ audioFiles' = audioFiles \cup {id}
  /\ SchedUnchanged
  /\ UNCHANGED <<queue, cancelledJobs, proc, killedLive, nextID, submitted>>
  /\ UNCHANGED <<takenCancelled, expectedTime, workerOutcomes>>

\* e.queue = append(e.queue, jobID) under queueMutex.
CreateJobAppend ==
  /\ \E r \in InFlight :
       /\ r.pc = "append"
       /\ Free(QueueMutex)
       /\ queue' = Append(queue, r.id)
       /\ submitted' = Append(submitted, r.id)
       /\ Goto(r, [r EXCEPT !.pc = "uqp1"])
  /\ SchedUnchanged
  /\ UNCHANGED <<jobs, cancelledJobs, proc, killedLive, nextID, audioFiles, terminated>>
  /\ UNCHANGED <<takenCancelled, expectedTime, workerOutcomes>>

\* updateQueuePositions called by CreateJob, CancelJob or ClearAllJobs: take
\* the first lock.
CallerPositionsLock ==
  /\ \E r \in InFlight :
       /\ r.pc = "uqp1"
       /\ Free(updateQueuePositionsLocks[1])
       /\ Goto(r, [r EXCEPT !.pc = "uqp2"])
  /\ SchedUnchanged
  /\ UNCHANGED <<jobs, queue, cancelledJobs, proc, killedLive, nextID, audioFiles,
                 submitted, terminated>>
  /\ UNCHANGED <<takenCancelled, expectedTime, workerOutcomes>>

\* ... take the second lock, relabel, unlock both.  CreateJob goes on to
\* Signal; CancelJob and ClearAllJobs return.
CallerPositions ==
  /\ \E r \in InFlight :
       /\ r.pc = "uqp2"
       /\ Free(updateQueuePositionsLocks[2])
       /\ Written(updateQueuePositions(jobs))
       /\ IF r.op = "CreateJob" THEN Goto(r, [r EXCEPT !.pc = "signal"]) ELSE Return(r)
  /\ SchedUnchanged
  /\ UNCHANGED <<queue, cancelledJobs, proc, killedLive, nextID, audioFiles, submitted>>
  /\ UNCHANGED <<takenCancelled, expectedTime, workerOutcomes>>

\* A Signal that wakes nobody.
NoSignal(s) == s

\* processingCond.Signal() as the scheduler sees it: parked in Wait it is
\* woken and goes back to take queueMutex and test the queue; otherwise the
\* signal has no effect.
Signal(s) == IF s.pc = "wait" THEN [s EXCEPT !.pc = "lock"] ELSE s

\* e.processingCond.Signal(): wakes the scheduler if it is parked in Wait.
CreateJobSignal ==
  /\ \E r \in InFlight :
       /\ r.pc = "signal"
       /\ Return(r)
  /\ sched' = Signal(sched)
  /\ UNCHANGED <<jobs, queue, isProcessing, cancelledJobs, workerCmd, proc, killedLive,
                 est, stopClosed, nextID, audioFiles, submitted, terminated>>
  /\ UNCHANGED <<takenCancelled, expectedTime, workerOutcomes>>

\* CancelJob: e.cancelledJobs[jobID] = true.
CancelJobMark ==
  /\ \E id \in Issued :
       /\ Begin(Call("CancelJob", "cq", id))
       /\ cancelledJobs' = cancelledJobs \cup {id}
  /\ SchedUnchanged
  /\ UNCHANGED <<jobs, queue, proc, killedLive, nextID, audioFiles, submitted,
                 terminated>>
  /\ UNCHANGED <<takenCancelled, expectedTime, workerOutcomes>>

\* CancelJob: find and remove the ID under queueMutex; "job not found in
\* queue" returns at once.
CancelJobDequeue ==
  /\ \E r \in InFlight :
       /\ r.pc = "cq"
       /\ Free(QueueMutex)
       /\ IF InQueue(queue, r.id)
            THEN /\ queue' = RemoveID(queue, r.id)
                 /\ Goto(r, [r EXCEPT !.pc = "cj",
                                      !.flag = (queue[1] = r.id /\ isProcessing)])
            ELSE /\ Return(r)
                 /\ UNCHANGED queue
  /\ SchedUnchanged
  /\ UNCHANGED <<jobs, cancelledJobs, proc, killedLive, nextID, audioFiles, submitted,
                 terminated>>
  /\ UNCHANGED <<takenCancelled, expectedTime, workerOutcomes>>

\* CancelJob's write to the Job.
CancelWrite(js, id, isProcessingJob) ==
  IF Has(js, id)
    THEN [js EXCEPT ![id] =
            [@ EXCEPT !.Status = StatusFailed,
                      !.Error = ErrCancelled,
                      !.Message = IF isProcessingJob THEN "Cancelling..." ELSE "Cancelled"]]
    ELSE js

CancelJobFail ==
  /\ \E r \in InFlight :
       /\ r.pc = "cj"
       /\ Free(JobsMutex)
       /\ Written(CancelWrite(jobs, r.id, r.flag))
       /\ Goto(r, [r EXCEPT !.pc = "uqp1"])
  /\ SchedUnchanged
  /\ UNCHANGED <<queue, cancelledJobs, proc, killedLive, nextID, audioFiles, submitted>>
  /\ UNCHANGED <<takenCancelled, expectedTime, workerOutcomes>>

\* KillJob: e.cancelledJobs[jobID] = true.
KillJobMark ==
  /\ \E id \in Issued :
       /\ Begin(Call("KillJob", "kw", id))
       /\ cancelledJobs' = cancelledJobs \cup {id}
  /\ SchedUnchanged
  /\ UNCHANGED <<jobs, queue, proc, killedLive, nextID, audioFiles, submitted,
                 terminated>>
  /\ UNCHANGED <<takenCancelled, expectedTime, workerOutcomes>>

\* The worker process KillJob(id) sends its kill to: the one of e.workerCmd,
\* when the command is set and its process has been started.
KillTarget(id) ==
  IF workerCmd # NilCmd /\ proc[workerCmd] \notin {"created", "nostart"}
    THEN workerCmd ELSE NilCmd

\* KillJob: cmd := e.workerCmd; cmd.Process.Kill().  Killing a process that
\* is already gone either succeeds without effect or fails with "process
\* already finished", and then KillJob returns the error.
KillJobWorker ==
  /\ \E r \in InFlight :
       /\ r.pc = "kw"
       /\ LET t == KillTarget(r.id)
          IN \/ /\ t = NilCmd
                /\ Goto(r, [r EXCEPT !.pc = "kj"])
                /\ UNCHANGED <<proc, killedLive>>
             \/ /\ t # NilCmd
                /\ proc[t] = "running"
                /\ proc' = [proc EXCEPT ![t] = "killed"]
                /\ killedLive' = IF t = r.id THEN killedLive \cup {t} ELSE killedLive
                /\ Goto(r, [r EXCEPT !.pc = "kj"])
             \/ /\ t # NilCmd
                /\ proc[t] # "running"
                /\ \E failed \in BOOLEAN :
                     IF failed THEN Return(r) ELSE Goto(r, [r EXCEPT !.pc = "kj"])
                /\ UNCHANGED <<proc, killedLive>>
  /\ SchedUnchanged
  /\ UNCHANGED <<jobs, queue, cancelledJobs, nextID, audioFiles, submitted,
                 terminated>>
  /\ UNCHANGED <<takenCancelled, expectedTime, workerOutcomes>>

\* KillJob's write to the Job.
KillWrite(js, id) ==
  IF Has(js, id)
    THEN [js EXCEPT ![id] =
            [@ EXCEPT !.Status = StatusFailed, !.Error = ErrKilled, !.Message = "Killed"]]
    ELSE js

KillJobFail ==
  /\ \E r \in InFlight :
       /\ r.pc = "kj"
       /\ Free(JobsMutex)
       /\ Written(KillWrite(jobs, r.id))
       /\ Return(r)
  /\ SchedUnchanged
  /\ UNCHANGED <<queue, cancelledJobs, proc, killedLive, nextID, audioFiles, submitted>>
  /\ UNCHANGED <<takenCancelled, expectedTime, workerOutcomes>>

\* ClearCompletedJobs: take the first lock.
ClearCompletedLock ==
  /\ Free(ClearCompletedJobsLocks[1])
  /\ Begin(Call("ClearCompletedJobs", "cc2", 0))
  /\ SchedUnchanged
  /\ UNCHANGED <<jobs, queue, cancelledJobs, proc, killedLive, nextID, audioFiles,
                 submitted, terminated>>
  /\ UNCHANGED <<takenCancelled, expectedTime, workerOutcomes>>

\* A clear that deletes every Completed/Failed job, queued or not.
ClearTerminal(js, q) ==
  [id \in JobIDs |->
     IF Has(js, id) /\ js[id].Status \in Terminal THEN NoJob ELSE js[id]]

\* Delete every Completed/Failed job that is not in the queue.
ClearCompleted(js, q) ==
  [id \in JobIDs |->
     IF Has(js, id) /\ js[id].Status \in Terminal /\ ~InQueue(q, id)
       THEN NoJob ELSE js[id]]

ClearCompletedJobs ==
  /\ \E r \in InFlight :
       /\ r.pc = "cc2"
       /\ Free(ClearCompletedJobsLocks[2])
       /\ Written(ClearCompleted(jobs, queue))
       /\ Return(r)
  /\ SchedUnchanged
  /\ UNCHANGED <<queue, cancelledJobs, proc, killedLive, nextID, audioFiles, submitted>>
  /\ UNCHANGED <<takenCancelled, expectedTime, workerOutcomes>>

\* ClearAllJobs: take the first lock.
ClearAllLock ==
  /\ Free(ClearAllJobsLocks[1])
  /\ Begin(Call("ClearAllJobs", "ca2", 0))
  /\ SchedUnchanged
  /\ UNCHANGED <<jobs, queue, cancelledJobs, proc, killedLive, nextID, audioFiles,
                 submitted, terminated>>
  /\ UNCHANGED <<takenCancelled, expectedTime, workerOutcomes>>

\* currentJobID: the head of the queue if isProcessing, else "" (no job).
CurrentJobID(q, processing) == IF Len(q) > 0 /\ processing THEN q[1] ELSE 0

\* The queue ClearAllJobs leaves: e.queue[:1] or nil.
ClearAllQueue(q, processing) ==
  IF Len(q) > 0 /\ processing THEN <<q[1]>> ELSE <<>>

\* Delete every job except currentJobID.
ClearAll(js, keep) ==
  [id \in JobIDs |-> IF id # keep THEN NoJob ELSE js[id]]

ClearAllJobs ==
  /\ \E r \in InFlight :
       /\ r.pc = "ca2"
       /\ Free(ClearAllJobsLocks[2])
       /\ queue' = ClearAllQueue(queue, isProcessing)
       /\ Written(ClearAll(jobs, CurrentJobID(queue, isProcessing)))
       /\ Goto(r, [r EXCEPT !.pc = "uqp1"])
  /\ SchedUnchanged
  /\ UNCHANGED <<cancelledJobs, proc, killedLive, nextID, audioFiles, submitted>>
  /\ UNCHANGED <<takenCancelled, expectedTime, workerOutcomes>>

\* GetQueue: take the first lock.
GetQueueLock ==
  /\ Free(GetQueueLocks[1])
  /\ Begin(Call("GetQueue", "gq2", 0))
  /\ SchedUnchanged
  /\ UNCHANGED <<jobs, queue, cancelledJobs, proc, killedLive, nextID, audioFiles,
                 submitted, terminated>>
  /\ UNCHANGED <<takenCancelled, expectedTime, workerOutcomes>>

\* GetQueue's first list: the IDs of the queue that have a registry entry,
\* in queue order (a returned Job copy is named by its ID).
QueuedJobs(js, q) == SelectSeq(q, LAMBDA id : Has(js, id))

\* completedIDs: the Completed/Failed jobs whose ID is not in the queue.
CompletedIDs(js, q) ==
  {id \in JobIDs : Has(js, id) /\ js[id].Status \in Terminal /\ ~InQueue(q, id)}

\* sort.Strings
RECURSIVE SortIDs(_)
SortIDs(S) ==
  IF S = {} THEN <<>>
  ELSE LET m == CHOOSE x \in S : \A y \in S : x <= y
       IN <<m>> \o SortIDs(S \ {m})

\* GetQueue's second list.
CompletedJobs(js, q) == SortIDs(CompletedIDs(js, q))

\* GetQueue: take the second lock, copy the jobs, unlock both, return.
GetQueue ==
  /\ \E r \in InFlight :
       /\ r.pc = "gq2"
       /\ Free(GetQueueLocks[2])
       /\ Return(r)
  /\ SchedUnchanged
  /\ UNCHANGED <<jobs, queue, cancelledJobs, proc, killedLive, nextID, audioFiles,
                 submitted, terminated>>
  /\ UNCHANGED <<takenCancelled, expectedTime, workerOutcomes>>

\* ------------------------------------------------------------ specification
\* The goroutines the engine runs by itself: the scheduler loop with the
\* worker it runs, and the estimators.
Scheduler ==
  \/ SchedTake
  \/ SchedRead
  \/ TranscribeStore
  \/ TranscribeStart
  \/ WorkerExit
  \/ TranscribeOutput
  \/ TranscribeWrite
  \/ SchedPop
  \/ SchedPositionsLock
  \/ SchedPositions

Engine ==
  \/ Scheduler
  \/ EstimatorTick
  \/ EstimatorUpdate

\* Submissions.
Submit ==
  \/ CreateJobStore
  \/ CreateJobAppend
  \/ CallerPositionsLock
  \/ CallerPositions
  \/ CreateJobSignal

\* Submissions and cancellations.
SubmitCancel ==
  \/ CreateJobStore
  \/ CreateJobAppend
  \/ CallerPositionsLock
  \/ CallerPositions
  \/ CreateJobSignal
  \/ CancelJobMark
  \/ CancelJobDequeue
  \/ CancelJobFail

Next ==
  \/ Engine
  \/ SubmitCancel
  \/ KillJobMark
  \/ KillJobWorker
  \/ KillJobFail
  \/ ClearCompletedLock
  \/ ClearCompletedJobs
  \/ ClearAllLock
  \/ ClearAllJobs
  \/ GetQueueLock
  \/ GetQueue

Spec == Init /\ [][Next]_vars

\* Runs of submissions and cancellations only, with room for three jobs.
InitFIFO == Start(FifoCalls, FifoJobs, FifoCallers)
NextFIFO == Scheduler \/ SubmitCancel
SpecFIFO == InitFIFO /\ [][NextFIFO]_vars

\* Runs of submissions, cancellations and kills made one after the other,
\* with room for a second kill of a job.
InitKill == Start(KillCalls, MaxJobs, KillCallers)
NextKill == Scheduler \/ SubmitCancel \/ KillJobMark \/ KillJobWorker \/ KillJobFail
SpecKill == InitKill /\ [][NextKill]_vars

\* Runs in which CreateJob may also be called with an ID already registered.
InitResubmit == Start(ResubmitCalls, MaxJobs, ResubmitCallers)
NextResubmit == Scheduler \/ SubmitCancel \/ CreateJobAgain
SpecResubmit == InitResubmit /\ [][NextResubmit]_vars

\* Runs of one job over the expected times its audio file may have.
InitProgress ==
  \E expected \in ExpectedTimes :
    StartAt(ProgressCalls, ProgressJobs, ProgressCallers, expected)
NextProgress == Engine \/ SubmitCancel
SpecProgress == InitProgress /\ [][NextProgress]_vars

\* Runs of submissions and cancellations in which a worker that exits by
\* itself may fail in each of the three ways.
InitFail ==
  StartRun(FailCalls, MaxJobs, FailCallers, ExpectedSeconds, FailureOutcomes)
NextFail == Engine \/ SubmitCancel
SpecFail == InitFail /\ [][NextFail]_vars

\* Fair runs of concurrent submissions: a goroutine that can take a step
\* takes one in the end (the Go scheduler runs every runnable goroutine),
\* and a worker process that runs exits in the end.
InitWake == Start(WakeCalls, MaxJobs, WakeCallers)
NextWake == Scheduler \/ Submit
SpecWake ==
  /\ InitWake
  /\ [][NextWake]_vars
  /\ WF_vars(Scheduler)
  /\ WF_vars(CreateJobAppend \/ CallerPositionsLock \/ CallerPositions \/ CreateJobSignal)

\* Runs of CreateJob, ClearAllJobs and CancelJob calls with the scheduler.
NextSubmit == Engine \/ SubmitCancel \/ ClearAllLock \/ ClearAllJobs
SpecSubmit == Init /\ [][NextSubmit]_vars

\* ------------------------------------------------------------------ claims
\* Jobs of the registry whose status is Processing or Transcribing.
ActiveJobs == {id \in JobIDs : Has(jobs, id) /\ jobs[id].Status \in Active}

\* C1: in every reachable state at most one job of the registry has status
\* Processing or Transcribing.
SingleFlightStatus == Cardinality(ActiveJobs) <= 1

\* Jobs whose worker command is stored and whose worker call has not
\* returned, and jobs whose worker process is alive.
Unreturned ==
  {id \in JobIDs :
     proc[id] \in {"created", "running", "exited", "killed", "nostart"}}
LiveWorkers == {id \in JobIDs : proc[id] = "running"}

\* C2: at most one worker process is live at any instant, and while the
\* scheduler is in the worker call of a job (from storing its command to the
\* return of cmd.Output) the worker call of every other job has returned and
\* no process of another job is alive.
SingleFlightExecution ==
  /\ Cardinality(LiveWorkers) <= 1
  /\ Cardinality(Unreturned) <= 1
  /\ \A id \in Unreturned : sched.id = id /\ sched.pc \in {"start", "output"}

\* C2 happens: the worker of a second job runs after the worker call of a
\* first job has returned.
SecondWorkerRuns ==
  \E i, j \in JobIDs : i # j /\ proc[i] = "reaped" /\ proc[j] = "running"

\* Jobs that were appended to the queue, are still registered (not purged),
\* and were never named in a CancelJob or KillJob call.
Untouched == {id \in Issued : Has(jobs, id) /\ id \notin cancelledJobs}

\* C3: every submitted job that is not cancelled, killed or purged reaches
\* Completed or Failed.  The scheduler only ever runs the head of the queue,
\* so such a job that has not reached a terminal status yet is still in the
\* queue or is the job the scheduler holds.
QueueProgress ==
  \A id \in Untouched :
    id \notin terminated => InQueue(queue, id) \/ sched.id = id

\* C4: of two jobs that are not cancelled, killed or purged, the one
\* appended to the queue first reaches a terminal status first.
FifoOrder ==
  \A i, j \in 1..Len(submitted) :
    (i < j /\ submitted[i] \in Untouched /\ submitted[j] \in Untouched)
      => (submitted[j] \in terminated => submitted[i] \in terminated)

\* Transcribe has made its last updateJob call for the job: it has closed
\* stopEstimator and is past the write that follows.
TranscribeWrote(id) == id \in stopClosed /\ ~(sched.id = id /\ sched.pc = "write")

\* C5: once Transcribe has written a job's terminal status, no estimator
\* tick writes to the job: its status stays Completed or Failed.
NoLateTick ==
  \A id \in JobIDs :
    TranscribeWrote(id) /\ Has(jobs, id) => jobs[id].Status \in Terminal

\* C6: a job whose ID is in the cancellation set and whose status is not
\* Completed never becomes Completed.
CancelledNeverCompletes ==
  [][\A id \in cancelledJobs :
       Has(jobs, id) /\ jobs[id].Status # StatusCompleted
         => ~(Has(jobs', id) /\ jobs'[id].Status = StatusCompleted)]_vars

\* The step of a KillJob(id) call from reading workerCmd to its write.
KillStep(r) ==
  /\ r.op = "KillJob"
  /\ r.pc = "kw"
  /\ calls' = (calls (-) SetToBag({r})) (+) SetToBag({[r EXCEPT !.pc = "kj"]})

\* C7: a worker process is killed only by a KillJob call that names the job
\* the worker is executing.
KillOnlyNamedJob ==
  [][\A t \in JobIDs :
       proc[t] = "running" /\ proc'[t] = "killed"
         => \E r \in InFlight : r.id = t /\ KillStep(r)]_vars

\* Two threads each hold one of the two mutexes and wait for the other's.
CircularWait(t, u) ==
  /\ Held(t) # "none"
  /\ Held(u) # "none"
  /\ Wanted(t) = Held(u)
  /\ Wanted(u) = Held(t)

\* A thread that waits for a mutex whose holder waits for one the thread
\* holds never gets it.
BlockedForever(t) == \E u \in Threads : CircularWait(t, u)

\* C8: in the runs of CreateJob, ClearAllJobs and CancelJob calls with the
\* scheduler loop, no two threads each hold one of jobsMutex/queueMutex
\* while waiting for the other, so every call can go on to return.
SubmitDeadlockFree ==
  \A t, u \in Threads : ~CircularWait(t, u)

\* C8 happens: a ClearAllJobs call holds jobsMutex and is about to take
\* queueMutex while the scheduler and another call are inside their own
\* lock sequences.
SubmitContention ==
  /\ sched.pc = "uqp1"
  /\ \E t, u \in InFlight :
       /\ t.op = "ClearAllJobs" /\ t.pc = "ca2"
       /\ u.op \in {"CreateJob", "CancelJob"}

\* C9: every thread that has taken one of the two mutexes and goes on to
\* take the other took jobsMutex first.
JobsMutexFirst ==
  \A t \in Threads : Nesting(t) # <<>> => Held(t) = JobsMutex

\* C10: no GetQueue, ClearCompletedJobs or ClearAllJobs call is ever blocked
\* forever.
ListAndClearReturn ==
  \A t \in InFlight :
    t.op \in {"GetQueue", "ClearCompletedJobs", "ClearAllJobs"} => ~BlockedForever(t)

\* No submit, cancel or clear-all call is in progress and the scheduler is
\* not between its pop and the end of its updateQueuePositions.
QueueOps == {"CreateJob", "CancelJob", "ClearAllJobs"}
QueueQuiet ==
  /\ \A r \in InFlight : r.op \notin QueueOps
  /\ sched.pc \notin {"uqp1", "uqp2"}

\* C11: when every submit, cancel, clear-all and scheduler completion step
\* begun so far has finished, every registered job of the queue has
\* QueuePosition equal to its 1-based index in the queue.
PositionsConsistent ==
  QueueQuiet =>
    \A i \in 1..Len(queue) :
      Has(jobs, queue[i]) => jobs[queue[i]].QueuePosition = i

\* C11 happens: all steps have finished and the job submitted second,
\* relabelled after the first one left the queue, is at the head.
SecondJobAtHead ==
  /\ QueueQuiet
  /\ Len(submitted) >= 2
  /\ queue # <<>>
  /\ queue[1] = submitted[2]
  /\ Has(jobs, queue[1])
  /\ jobs[queue[1]].QueuePosition = 1

\* C12: once a job's status is Completed or Failed it never changes again;
\* in particular a Completed job never becomes Failed.
CompletedNeverFailed ==
  [][\A id \in JobIDs :
       Has(jobs, id) /\ jobs[id].Status = StatusCompleted /\ Has(jobs', id)
         => jobs'[id].Status # StatusFailed]_vars

\* The scheduler has picked the job: it is between taking it as queue[0]
\* and popping the queue.
Picked(id) ==
  sched.id = id /\ sched.pc \in {"read", "store", "start", "output", "write", "pop"}

\* The caller r takes a step of its call that leaves it as r2.
Moves(r, r2) == calls' = (calls (-) SetToBag({r})) (+) SetToBag({r2})
Returns(r) == calls' = calls (-) SetToBag({r})

\* q2 is q without id, the other IDs in the same relative order.
RemovedInOrder(q, q2, id) ==
  /\ ~InQueue(q2, id)
  /\ \A x \in JobIDs : x # id => (InQueue(q2, x) <=> InQueue(q, x))
  /\ \A i, j \in 1..Len(q2) :
       i < j => \E k, l \in 1..Len(q) : k < l /\ q[k] = q2[i] /\ q[l] = q2[j]
  /\ Len(q2) = Len(q) - 1

\* The caller r takes a step: one copy of its record leaves the bag.
StepsFrom(r) == CopiesIn(r, calls') < CopiesIn(r, calls)

TranscribeReturned(id) ==
  proc[id] = "reaped" /\ ~(sched.id = id /\ sched.pc = "write")

\* C14: after KillJob(A) has killed A's live worker and returned, and the
\* scheduler has finished with A, A's error is "Killed by user".
KilledJobReportsKill ==
  \A id \in killedLive :
    (/\ Has(jobs, id)
     /\ TranscribeReturned(id)
     /\ \A r \in InFlight : ~(r.op = "KillJob" /\ r.id = id))
      => jobs[id].Error = ErrKilled

\* A CancelJob(id) call is at its queue step.
CancelAtQueue(id) ==
  \E r \in InFlight : r.op = "CancelJob" /\ r.id = id /\ r.pc = "cq"

\* C15: in the runs without KillJob, once a CancelJob(id) call is past its
\* queue step id is out of the queue for good, so a second CancelJob(id)
\* does not find it; and a CancelJob call that does not find its ID returns
\* (the error) leaving the registry, the queue and the cancellation set as
\* they are.
CancelIdempotent ==
  [][/\ \A id \in cancelledJobs :
          InQueue(queue, id) => CancelAtQueue(id)
     /\ \A r \in InFlight :
          (/\ r.op = "CancelJob"
           /\ r.pc = "cq"
           /\ StepsFrom(r)
           /\ ~InQueue(queue, r.id))
            => /\ Returns(r)
               /\ jobs' = jobs
               /\ queue' = queue
               /\ cancelledJobs' = cancelledJobs]_vars

\* C15 happens: a second CancelJob(id) is at its queue step after a first
\* one took id out of the queue and wrote the job.
SecondCancel ==
  \E r \in InFlight :
    /\ r.op = "CancelJob" /\ r.pc = "cq"
    /\ ~InQueue(queue, r.id)
    /\ Has(jobs, r.id) /\ jobs[r.id].Error = ErrCancelled
    /\ \A r2 \in InFlight : r2.id = r.id => r2 = r

\* C16: a KillJob(id) call made after an earlier KillJob(id) killed the
\* job's worker terminates no worker process.
SecondKillHarmless ==
  [][\A r \in InFlight :
       (/\ r.op = "KillJob"
        /\ r.pc = "kw"
        /\ StepsFrom(r)
        /\ r.id \in killedLive)
         => proc' = proc]_vars

\* The scheduler is inside Transcribe for the job.
Executing(id) ==
  sched.id = id /\ sched.pc \in {"store", "start", "output", "write"}

\* C17: ClearAllJobs never deletes the registry entry of the job the
\* scheduler is executing.
ClearAllKeepsExecuting ==
  [][\A r \in InFlight :
       (r.op = "ClearAllJobs" /\ r.pc = "ca2" /\ StepsFrom(r))
         => \A id \in JobIDs :
              Executing(id) /\ Has(jobs, id) => Has(jobs', id)]_vars

\* C18: ClearCompletedJobs deletes exactly the jobs whose status is
\* Completed or Failed and whose ID is not in the queue, and leaves every
\* other registry entry, the queue, the cancellation set and the worker
\* handle unchanged.
ClearCompletedFrame ==
  [][\A r \in InFlight :
       (r.op = "ClearCompletedJobs" /\ r.pc = "cc2" /\ StepsFrom(r))
         => /\ \A id \in JobIDs :
                 IF /\ Has(jobs, id)
                    /\ jobs[id].Status \in {StatusCompleted, StatusFailed}
                    /\ \A i \in 1..Len(queue) : queue[i] # id
                   THEN ~Has(jobs', id)
                   ELSE jobs'[id] = jobs[id]
            /\ queue' = queue
            /\ cancelledJobs' = cancelledJobs
            /\ workerCmd' = workerCmd]_vars

\* C18 happens: a ClearCompletedJobs call is about to clear a registry that
\* holds a finished job outside the queue and a finished job still in it.
ClearCompletedChooses ==
  /\ \E r \in InFlight : r.op = "ClearCompletedJobs" /\ r.pc = "cc2"
  /\ \E a, b \in JobIDs :
       /\ Has(jobs, a) /\ jobs[a].Status \in Terminal /\ ~InQueue(queue, a)
       /\ Has(jobs, b) /\ jobs[b].Status \in Terminal /\ InQueue(queue, b)

\* C19: a job has a Result only if its status is Completed, and a non-empty
\* Error only if its status is Failed.
PresenceMatchesStatus ==
  \A id \in JobIDs :
    Has(jobs, id) =>
      /\ jobs[id].Result # NoResult => jobs[id].Status = StatusCompleted
      /\ jobs[id].Error # "" => jobs[id].Status = StatusFailed

\* C20: once a job's Error is non-empty it never changes, and once its
\* Result is set it is never replaced.
WriteOnce ==
  [][\A id \in JobIDs :
       Has(jobs, id) /\ Has(jobs', id) =>
         /\ jobs[id].Error # "" => jobs'[id].Error = jobs[id].Error
         /\ jobs[id].Result # NoResult => jobs'[id].Result = jobs[id].Result]_vars

\* C21: every ID in the queue is a key of the registry.
QueueInRegistry ==
  \A i \in 1..Len(queue) : Has(jobs, queue[i])

\* C22: when no queue operation is in progress, a registered job that has
\* left the queue has QueuePosition 0.
LeftQueuePositionZero ==
  QueueQuiet =>
    \A id \in Issued :
      Has(jobs, id) /\ ~InQueue(queue, id) => jobs[id].QueuePosition = 0

\* A call with record r begins in this step.
Begins(r) == CopiesIn(r, calls') > CopiesIn(r, calls)

\* C23: a CreateJob call whose ID is already a key of the registry leaves
\* the existing job record and the queue unchanged, at its first step and
\* at every later one.
DuplicateRejected ==
  [][\A id \in JobIDs :
       LET r == [Call("CreateJob", "append", id) EXCEPT !.flag = TRUE]
       IN /\ Begins(r) => jobs'[id] = jobs[id] /\ queue' = queue
          /\ (r \in InFlight /\ StepsFrom(r)) => queue' = queue]_vars

\* C24: a KillJob call whose ID is not a key of the registry changes no
\* engine state, neither when it begins nor at a later step.
KillMissChangesNothing ==
  [][\A id \in JobIDs :
       LET r == Call("KillJob", "kw", id)
       IN (/\ ~Has(jobs, id)
           /\ Begins(r) \/ (r \in InFlight /\ StepsFrom(r)))
            => /\ cancelledJobs' = cancelledJobs
               /\ proc' = proc
               /\ jobs' = jobs
               /\ queue' = queue
               /\ workerCmd' = workerCmd]_vars

\* Number of times an ID occurs in a list.
Occurrences(l, id) == Cardinality({i \in 1..Len(l) : l[i] = id})

\* C25: the two lists a GetQueue call returns, taken while no submit, cancel
\* or clear-all is in progress, together hold every job of the registry
\* exactly once: the first the jobs of the queue in queue order, the second
\* the jobs not in the queue in ascending ID order.
GetQueuePartitions ==
  [][\A r \in InFlight :
       (r.op = "GetQueue" /\ r.pc = "gq2" /\ StepsFrom(r) /\ QueueQuiet)
         => LET first == QueuedJobs(jobs, queue)
                second == CompletedJobs(jobs, queue)
            IN /\ \A id \in JobIDs :
                    Occurrences(first, id) + Occurrences(second, id)
                      = IF Has(jobs, id) THEN 1 ELSE 0
               /\ \A id \in JobIDs :
                    Occurrences(first, id) = 1 <=> Has(jobs, id) /\ InQueue(queue, id)
               /\ \A i, j \in 1..Len(first) :
                    i < j => \E k, l \in 1..Len(queue) :
                               k < l /\ queue[k] = first[i] /\ queue[l] = first[j]
               /\ \A i, j \in 1..Len(second) : i < j => second[i] < second[j]]_vars

\* C26: when the job the scheduler took as head of the queue was in the
\* cancellation set at that moment, the scheduler starts no worker process
\* for it (stated for the runs in which no call is in progress when the
\* worker would start).
CancelledNotStarted ==
  [][(sched.pc = "start" /\ takenCancelled /\ InFlight = {})
       => proc'[sched.id] # "running"]_vars

\* C27: an ID leaves the queue only in a pop by the scheduler that has just
\* processed that same ID, in the queue step of a CancelJob call naming it,
\* or in a ClearAllJobs step.
LeavesQueueProperly ==
  [][\A id \in JobIDs :
       (InQueue(queue, id) /\ ~InQueue(queue', id))
         => \/ sched.pc = "pop" /\ sched'.pc = "uqp1" /\ sched.id = id
            \/ \E r \in InFlight :
                 r.op = "CancelJob" /\ r.pc = "cq" /\ r.id = id /\ StepsFrom(r)
            \/ \E r \in InFlight :
                 r.op = "ClearAllJobs" /\ r.pc = "ca2" /\ StepsFrom(r)]_vars

\* C28: a job whose worker process is live does not have status Queued.
LiveWorkerNotQueued ==
  \A id \in JobIDs :
    (proc[id] = "running" /\ Has(jobs, id)) => jobs[id].Status # StatusQueued

\* C29: once a job is in the cancellation set and CancelJob or KillJob has
\* written it Failed, an estimator write leaves the job as it is.
NoTickOnCancelled ==
  [][\A id \in cancelledJobs :
       (/\ Has(jobs, id)
        /\ jobs[id].Status = StatusFailed
        /\ jobs[id].Error \in {ErrCancelled, ErrKilled}
        /\ est[id] = "update"
        /\ est'[id] # "update")
         => jobs'[id] = jobs[id]]_vars

\* C30: every progress value the estimator writes lies in 0..99, and a
\* job's progress becomes 100 only in the scheduler's Completed write.
ProgressClamped ==
  [][\A id \in JobIDs :
       (Has(jobs, id) /\ Has(jobs', id)) =>
         /\ (est[id] = "update" /\ est'[id] # "update")
              => jobs'[id].Progress \in 0..ProgressClamp
         /\ (jobs[id].Progress # ProgressDone /\ jobs'[id].Progress = ProgressDone)
              => /\ jobs'[id].Status = StatusCompleted
                 /\ sched.id = id /\ sched.pc = "write" /\ sched'.pc = "pop"]_vars

\* C31: the worker command of a job is created, and its process started,
\* at most once over a run, and a job that failed after its worker call
\* returned is never taken by the scheduler again.
NoRetry ==
  [][\A id \in JobIDs :
       /\ proc[id] # "none" => proc'[id] # "none"
       /\ (proc[id] # "created" /\ proc'[id] = "created") => proc[id] = "none"
       /\ (proc[id] # "running" /\ proc'[id] = "running") => proc[id] = "created"
       /\ (/\ proc[id] = "reaped"
           /\ Has(jobs, id)
           /\ jobs[id].Status = StatusFailed)
            => ~(sched.pc = "lock" /\ sched'.pc = "read" /\ sched'.id = id)]_vars

\* C31 happens: a job failed after its worker call returned, and the
\* scheduler has gone on to run the worker of the next job.
FailedJobLeftBehind ==
  \E i, j \in JobIDs :
    /\ i # j
    /\ proc[i] = "reaped"
    /\ Has(jobs, i) /\ jobs[i].Status = StatusFailed
    /\ sched.id = j /\ proc[j] = "running"

\* What Transcribe writes for a failure: sched.res after the probe or the
\* worker call failed (or the job was found cancelled).
Failures == {ErrDuration, ErrPrepare, ErrWorker, ErrParse, ErrResponse, ErrCancelled}

HandleLifetime ==
  /\ workerCmd # NilCmd
       => /\ workerCmd = sched.id
          /\ sched.pc \in {"start", "output"}
          /\ proc[workerCmd] \in {"created", "running", "exited", "killed", "nostart"}
  /\ ~isProcessing => workerCmd = NilCmd
  /\ sched.pc \in {"lock", "wait", "read", "write", "pop", "uqp1", "uqp2"}
       => workerCmd = NilCmd

\* C34 happens: the worker call of the second job has returned, the handle
\* is nil again and the outcome is about to be written.
HandleCleared ==
  /\ sched.pc = "write"
  /\ proc[sched.id] = "reaped"
  /\ \E i \in JobIDs : i # sched.id /\ proc[i] = "reaped"
  /\ workerCmd = NilCmd

\* A thread finishes an updateQueuePositions in this step.
Recomputes ==
  \/ sched.pc = "uqp2" /\ sched' # sched
  \/ \E r \in InFlight : r.pc = "uqp2" /\ StepsFrom(r)

\* C35: after a recomputation of the positions, a job of the queue has the
\* message "Processing..." only if it is the job the scheduler holds, and
\* every other registered job of the queue has the message of its position.
ProcessingNamesExecuting ==
  [][Recomputes =>
       \A i \in 1..Len(queue') :
         Has(jobs', queue'[i]) =>
           IF jobs'[queue'[i]].Message = "Processing..."
             THEN /\ sched'.id = queue'[i]
                  /\ sched'.pc \in {"read", "store", "start", "output", "write", "pop"}
             ELSE jobs'[queue'[i]].Message = PositionMessage(i)]_vars

\* Nothing is left to happen: no call is in progress or can begin, the queue
\* is empty and the scheduler loop is parked.
RunOver ==
  /\ InFlight = {}
  /\ callsLeft = 0
  /\ queue = <<>>
  /\ sched.pc = "wait"

\* C36: when a run is over, the audio file of every job that CancelJob took
\* out of the queue before the scheduler picked it (message "Cancelled") has
\* been removed.
CancelledFileRemoved ==
  RunOver =>
    \A id \in JobIDs :
      (/\ Has(jobs, id)
       /\ jobs[id].Status = StatusFailed
       /\ jobs[id].Error = ErrCancelled
       /\ jobs[id].Message = "Cancelled")
        => id \notin audioFiles

\* C37: every registered job whose status is Completed has its Result.
CompletedHasResult ==
  \A id \in JobIDs :
    (Has(jobs, id) /\ jobs[id].Status = StatusCompleted)
      => jobs[id].Result # NoResult

\* C37 happens: the scheduler has just written a job Completed, with
\* progress 100 and the result, in its one updateJob call.
JustCompleted ==
  /\ sched.pc = "pop"
  /\ Has(jobs, sched.id)
  /\ jobs[sched.id].Status = StatusCompleted
  /\ jobs[sched.id].Progress = ProgressDone
  /\ jobs[sched.id].Result = TheResult

\* C38: a CancelJob(id) call that begins when id is not in the queue (an
\* appended ID does not come back into the queue, so the call returns "job
\* not found in queue") leaves the registry, the queue and the cancellation
\* set as they are, at its first step and at its queue step.
CancelMissChangesNothing ==
  [][\A id \in JobIDs :
       LET r == Call("CancelJob", "cq", id)
       IN (/\ ~InQueue(queue, id)
           /\ Begins(r) \/ (r \in InFlight /\ StepsFrom(r)))
            => /\ jobs' = jobs
               /\ queue' = queue
               /\ cancelledJobs' = cancelledJobs]_vars

\* C39: ClearCompletedJobs never deletes the registry entry of a job whose
\* worker process is alive.
ClearCompletedKeepsLive ==
  [][\A r \in InFlight :
       (r.op = "ClearCompletedJobs" /\ r.pc = "cc2" /\ StepsFrom(r))
         => \A id \in LiveWorkers : Has(jobs, id) => Has(jobs', id)]_vars

====
